---- MODULE Spec2Model ----
(***************************************************************************)
(* Model of src/components/network/NetworkMap.tsx: the NetworkMap view     *)
(* (device list state, pull-mode refresh timer, in-flight fetches, push    *)
(* mode through the networkDevices prop) and the graphData synthesis       *)
(* (nodes, hub links, switch chain, server attachment).                    *)
(*                                                                         *)
(* A device is modelled by the fields the synthesis reads: id, type and    *)
(* status.  The node fields name, icon and location are copies / display   *)
(* values no link depends on and are left out of the node records.         *)
(***************************************************************************)
EXTENDS Integers, Sequences, FiniteSets

VARIABLES
    pc,              \* lifecycle position of the view / of a synthesis call
    networkDevices,  \* the networkDevices prop: [given, list]
    devices,         \* useState<Device[]>([])
    loading,         \* useState(true)
    timer,           \* TRUE while the setInterval of the effect is armed
    fetches,         \* fetch number -> state of that fetchDevices() call
    holder,          \* number of the fetch whose data `devices` holds (0: none)
    toasts,          \* notifications emitted so far
    graphData        \* useMemo value: [nodes, links, threw]

vars == <<pc, networkDevices, devices, loading, timer, fetches, holder, toasts, graphData>>

----------------------------------------------------------------------------
\* Bounds of the model.

\* longest device list (ids all different) given to a synthesis call
MaxLen == 5
\* longest device list with repeated ids given to a synthesis call
MaxDupLen == 3
\* number of fetchDevices() calls that reach api.getAllDevices()
MaxFetches == 3

----------------------------------------------------------------------------
\* Devices.

\* ids: the synthesis only copies them
DeviceIds == <<"d1", "d2", "d3", "d4", "d5", "d6", "d7", "d8">>
DeviceTypes == {"router", "switch", "server"}
DeviceStatuses == {"online", "offline"}

\* a device without its id
DeviceKind == [type : DeviceTypes, status : DeviceStatuses]

\* the device list whose i-th device has the i-th id and the i-th kind
WithIds(kinds) ==
    [i \in 1..Len(kinds) |->
        [id |-> DeviceIds[i], type |-> kinds[i].type, status |-> kinds[i].status]]

\* devices whose ids may repeat (the code never checks them)
DupDevice == [id : {"d1", "d2"}, type : DeviceTypes, status : DeviceStatuses]

\* The lists the remote service returns and the caller supplies in the view.
SnapshotA ==
    << [id |-> "gw",   type |-> "router", status |-> "online"],
       [id |-> "s1",   type |-> "switch", status |-> "online"],
       [id |-> "s2",   type |-> "switch", status |-> "offline"],
       [id |-> "srv1", type |-> "server", status |-> "online"] >>

SnapshotB ==
    << [id |-> "s9",   type |-> "switch", status |-> "online"],
       [id |-> "srv9", type |-> "server", status |-> "offline"] >>

Snapshots == {<<>>, SnapshotA, SnapshotB}

\* the value of an absent array element or of an absent prop
Undefined == [undefined |-> TRUE]

\* arr[i] of JavaScript, i counted from 0
At(arr, i) == IF i \in 0..(Len(arr) - 1) THEN arr[i + 1] ELSE Undefined

\* arr.slice(1)
Slice1(arr) == IF Len(arr) = 0 THEN <<>> ELSE Tail(arr)

----------------------------------------------------------------------------
\* graphData: the synthesis.

Link(s, t, a) == [source |-> s, target |-> t, type |-> "straight", animated |-> a]

\* devices.map(device => ({id, type, status, val: 1, ...}))
NodesSkipGateway(devs) ==
    [i \in 1..Len(Slice1(devs)) |->
        [id |-> Slice1(devs)[i].id, type |-> Slice1(devs)[i].type,
         status |-> Slice1(devs)[i].status, val |-> 1]]

Nodes(devs) ==
    [i \in 1..Len(devs) |->
        [id |-> devs[i].id, type |-> devs[i].type,
         status |-> devs[i].status, val |-> 1]]

\* const gateway = devices[0]
Gateway(devs) == At(devs, 0)

\* gateway.id is read inside the forEach callback only: the read of a
\* property of undefined throws when a callback runs with no gateway.
HubThrowsEager(devs) == Gateway(devs) = Undefined

HubThrows(devs) == Len(Slice1(devs)) > 0 /\ Gateway(devs) = Undefined

\* devices.slice(1).forEach(device => links.push({gateway.id, device.id, ...}))
HubLinksGatewayStatus(devs) ==
    [i \in 1..Len(Slice1(devs)) |->
        Link(Gateway(devs).id, Slice1(devs)[i].id,
             Gateway(devs).status = "online" /\ Slice1(devs)[i].status = "online")]

HubLinks(devs) ==
    [i \in 1..Len(Slice1(devs)) |->
        Link(Gateway(devs).id, Slice1(devs)[i].id, Slice1(devs)[i].status = "online")]

\* devices.filter(d => d.type === 'switch')
IsSwitch(d) == d.type = "switch"
Switches(devs) == SelectSeq(devs, IsSwitch)

\* devices.filter(d => d.type === 'server')
IsServer(d) == d.type = "server"
Servers(devs) == SelectSeq(devs, IsServer)

\* switches.forEach((sw, idx) => { if (idx < switches.length - 1) push })
RECURSIVE ChainFromEitherOnline(_, _)
ChainFromEitherOnline(switches, idx) ==
    IF idx >= Len(switches) THEN <<>>
    ELSE (IF idx < Len(switches) - 1
          THEN << Link(At(switches, idx).id, At(switches, idx + 1).id,
                       At(switches, idx).status = "online"
                       \/ At(switches, idx + 1).status = "online") >>
          ELSE <<>>)
         \o ChainFromEitherOnline(switches, idx + 1)

RECURSIVE ChainFrom(_, _)
ChainFrom(switches, idx) ==
    IF idx >= Len(switches) THEN <<>>
    ELSE (IF idx < Len(switches) - 1
          THEN << Link(At(switches, idx).id, At(switches, idx + 1).id,
                       At(switches, idx).status = "online"
                       /\ At(switches, idx + 1).status = "online") >>
          ELSE <<>>)
         \o ChainFrom(switches, idx + 1)

ChainLinksEitherOnline(devs) == ChainFromEitherOnline(Switches(devs), 0)

ChainLinks(devs) == ChainFrom(Switches(devs), 0)

\* switches[idx % switches.length]: with no switch idx % 0 is NaN and
\* switches[NaN] is undefined.
TargetSwitchNoModulo(switches, idx) == At(switches, idx)

TargetSwitch(switches, idx) ==
    IF Len(switches) = 0 THEN Undefined
    ELSE At(switches, idx % Len(switches))

\* servers.forEach((server, idx) => { if (targetSwitch) push })
RECURSIVE ServerFrom(_, _, _)
ServerFrom(servers, switches, idx) ==
    IF idx >= Len(servers) THEN <<>>
    ELSE LET server == At(servers, idx)
             targetSwitch == TargetSwitch(switches, idx)
         IN  (IF targetSwitch # Undefined
              THEN << Link(server.id, targetSwitch.id,
                           server.status = "online" /\ targetSwitch.status = "online") >>
              ELSE <<>>)
             \o ServerFrom(servers, switches, idx + 1)

ServerLinks(devs) == ServerFrom(Servers(devs), Switches(devs), 0)

\* the useMemo callback: nodes, then hub, chain and server links in that order
Synthesize(devs) ==
    IF HubThrows(devs)
    THEN [nodes |-> <<>>, links |-> <<>>, threw |-> TRUE]
    ELSE [nodes |-> Nodes(devs),
          links |-> HubLinks(devs) \o ChainLinks(devs) \o ServerLinks(devs),
          threw |-> FALSE]

\* useMemo(..., [devices]): recomputed in the render that follows setDevices
MemoAccumulatesLinks(prev, devs) ==
    [Synthesize(devs) EXCEPT !.links = prev.links \o @]

Memo(prev, devs) == Synthesize(devs)

----------------------------------------------------------------------------
\* The view.

NoProp == [given |-> FALSE, list |-> <<>>]
Props == {NoProp} \cup {[given |-> TRUE, list |-> l] : l \in Snapshots}

FetchNumbers == 1..MaxFetches

Started(fs) == {f \in FetchNumbers : fs[f] # "idle"}

\* the model follows at most MaxFetches calls of api.getAllDevices()
CanFetch(fs) == Cardinality(Started(fs)) < MaxFetches

\* fetchDevices() in a render without the prop: runs up to
\* `await api.getAllDevices()` and leaves the request in flight
StartFetch(fs) == [fs EXCEPT ![Cardinality(Started(fs)) + 1] = "pending"]

\* one call of toast({title: "Error", ...}): one notification
Toast(n) == n + 1

\* state before the first effect runs: useState initial values, first render
Init ==
    /\ pc = "constructed"
    /\ networkDevices \in Props
    /\ devices = <<>>
    /\ loading = TRUE
    /\ timer = FALSE
    /\ fetches = [f \in FetchNumbers |-> "idle"]
    /\ holder = 0
    /\ toasts = 0
    /\ graphData = Synthesize(<<>>)

\* body of useEffect(..., [networkDevices]) for the prop value nd
Effect(nd) ==
    IF nd.given
    THEN /\ devices' = nd.list
         /\ loading' = FALSE
         /\ holder' = 0
         /\ graphData' = Memo(graphData, nd.list)
         /\ timer' = FALSE
         /\ UNCHANGED fetches
    ELSE /\ fetches' = StartFetch(fetches)
         /\ timer' = TRUE
         /\ UNCHANGED <<devices, loading, holder, graphData>>

\* the effect runs after the first render
Mount ==
    /\ pc = "constructed"
    /\ pc' = "mounted"
    /\ Effect(networkDevices)
    /\ UNCHANGED <<networkDevices, toasts>>

\* the caller renders the view with another networkDevices value (a new
\* array, possibly with the same content, or none): cleanup of the previous
\* effect (clearInterval when it had armed one), then the effect again
PropChange(nd) ==
    /\ pc = "mounted"
    /\ nd.given \/ networkDevices.given
    /\ nd.given \/ CanFetch(fetches)
    /\ networkDevices' = nd
    /\ Effect(nd)
    /\ UNCHANGED <<pc, toasts>>

\* setInterval(fetchDevices, 30000) fires: nothing looks at fetches in flight
TickGuarded ==
    /\ timer
    /\ CanFetch(fetches)
    /\ \A f \in FetchNumbers : fetches[f] # "pending"
    /\ fetches' = StartFetch(fetches)
    /\ UNCHANGED <<pc, networkDevices, devices, loading, timer, holder, toasts, graphData>>

Tick ==
    /\ timer
    /\ CanFetch(fetches)
    /\ fetches' = StartFetch(fetches)
    /\ UNCHANGED <<pc, networkDevices, devices, loading, timer, holder, toasts, graphData>>

\* api.getAllDevices() resolves with data: setDevices(data), then finally
\* setLoading(false).  React drops state updates of an unmounted component.
FetchSucceed(f, data) ==
    /\ fetches[f] = "pending"
    /\ fetches' = [fetches EXCEPT ![f] = "resolved"]
    /\ IF pc = "mounted"
       THEN /\ devices' = data
            /\ holder' = f
            /\ loading' = FALSE
            /\ graphData' = Memo(graphData, data)
       ELSE UNCHANGED <<devices, holder, loading, graphData>>
    /\ UNCHANGED <<pc, networkDevices, timer, toasts>>

\* api.getAllDevices() rejects: catch { toast(...) } finally { setLoading(false) }
FetchFailClearsList(f) ==
    /\ fetches[f] = "pending"
    /\ fetches' = [fetches EXCEPT ![f] = "rejected"]
    /\ toasts' = Toast(toasts)
    /\ IF pc = "mounted"
       THEN /\ loading' = FALSE
            /\ devices' = <<>>
            /\ holder' = 0
            /\ graphData' = Memo(graphData, <<>>)
       ELSE UNCHANGED <<devices, holder, loading, graphData>>
    /\ UNCHANGED <<pc, networkDevices, timer>>

FetchFail(f) ==
    /\ fetches[f] = "pending"
    /\ fetches' = [fetches EXCEPT ![f] = "rejected"]
    /\ toasts' = Toast(toasts)
    /\ IF pc = "mounted"
       THEN loading' = FALSE
       ELSE UNCHANGED loading
    /\ UNCHANGED <<pc, networkDevices, devices, timer, holder, graphData>>

\* teardown: the effect's cleanup, clearInterval(interval), when it armed one
Unmount ==
    /\ pc = "mounted"
    /\ pc' = "unmounted"
    /\ timer' = FALSE
    /\ UNCHANGED <<networkDevices, devices, loading, fetches, holder, toasts, graphData>>

Next ==
    \/ Mount
    \/ \E nd \in Props : PropChange(nd)
    \/ Tick
    \/ \E f \in FetchNumbers, data \in Snapshots : FetchSucceed(f, data)
    \/ \E f \in FetchNumbers : FetchFail(f)
    \/ Unmount

Spec == Init /\ [][Next]_vars

----------------------------------------------------------------------------
\* One call of the synthesis on each device list: every list of up to MaxLen
\* devices with different ids, every list of up to MaxDupLen devices over two ids.

SynthInit ==
    /\ pc = "call"
    /\ \/ \E n \in 0..MaxLen : \E kinds \in [1..n -> DeviceKind] :
             devices = WithIds(kinds)
       \/ \E n \in 0..MaxDupLen : devices \in [1..n -> DupDevice]
    /\ networkDevices = NoProp
    /\ loading = TRUE
    /\ timer = FALSE
    /\ fetches = [f \in FetchNumbers |-> "idle"]
    /\ holder = 0
    /\ toasts = 0
    /\ graphData = [nodes |-> <<>>, links |-> <<>>, threw |-> FALSE]

SynthCall ==
    /\ pc = "call"
    /\ pc' = "done"
    /\ graphData' = Synthesize(devices)
    /\ UNCHANGED <<networkDevices, devices, loading, timer, fetches, holder, toasts>>

SynthNext == SynthCall

SynthSpec == SynthInit /\ [][SynthNext]_vars
----------------------------------------------------------------------------
\* What the claims compare the synthesis with, read off the device list.

SwitchesOf(devs) == SelectSeq(devs, LAMBDA d : d.type = "switch")
ServersOf(devs) == SelectSeq(devs, LAMBDA d : d.type = "server")
HubCount == IF Len(devices) = 0 THEN 0 ELSE Len(devices) - 1
ChainCount == IF Len(SwitchesOf(devices)) = 0 THEN 0 ELSE Len(SwitchesOf(devices)) - 1
ServerCount == IF Len(SwitchesOf(devices)) = 0 THEN 0 ELSE Len(ServersOf(devices))
IdsOf(seq) == {seq[i].id : i \in 1..Len(seq)}
UniqueIds(seq) == \A i, j \in 1..Len(seq) : seq[i].id = seq[j].id => i = j

\* C1: the synthesis of the empty device list does not throw and yields a
\* graph with no node and no link.
C1_EmptyListEmptyGraph ==
    (pc = "done" /\ devices = <<>>)
        => /\ ~graphData.threw
           /\ graphData.nodes = <<>>
           /\ graphData.links = <<>>

C1_Witness ==
    /\ pc = "done"
    /\ devices = <<>>
    /\ graphData = [nodes |-> <<>>, links |-> <<>>, threw |-> FALSE]

\* C2: for a non-empty device list there are as many nodes as devices, the
\* i-th node has the i-th device's id, and unique device ids give unique
\* node ids.
C2_NodesMirrorDevices ==
    (pc = "done" /\ Len(devices) >= 1)
        => /\ Len(graphData.nodes) = Len(devices)
           /\ \A i \in 1..Len(devices) : graphData.nodes[i].id = devices[i].id
           /\ UniqueIds(devices) => UniqueIds(graphData.nodes)

C2_Witness ==
    /\ pc = "done"
    /\ Len(devices) = 3
    /\ UniqueIds(devices)
    /\ Len(graphData.nodes) = 3
    /\ graphData.nodes[3].id = devices[3].id

\* C3: for n >= 1 devices the first n - 1 links are the hub edges, one per
\* device 2..n in input order, from the first device's id to that device's
\* id, animated exactly when that device is online; no other link is a hub
\* edge (the chain and server edges account for all the others).
C3_HubEdges ==
    (pc = "done" /\ Len(devices) >= 1)
        => /\ ~graphData.threw
           /\ Len(graphData.links) = HubCount + ChainCount + ServerCount
           /\ \A i \in 1..HubCount :
                graphData.links[i] =
                    [source |-> devices[1].id, target |-> devices[i + 1].id,
                     type |-> "straight",
                     animated |-> (devices[i + 1].status = "online")]

C3_Witness ==
    /\ pc = "done"
    /\ Len(devices) = 4
    /\ devices[1].status = "offline"
    /\ devices[2].status = "online"
    /\ devices[3].status = "offline"
    /\ graphData.links[1].animated
    /\ ~graphData.links[2].animated
    /\ graphData.links[3].source = devices[1].id

\* C4: with k >= 1 switches and m servers the last m links are the server
\* edges, server i (from 0) to switch i mod k, animated exactly when both are
\* online; with no switch there is no server edge and nothing throws.
C4_ServerRoundRobin ==
    (pc = "done")
        => /\ ~graphData.threw
           /\ Len(graphData.links) = HubCount + ChainCount + ServerCount
           /\ \A i \in 0..(ServerCount - 1) :
                LET server == ServersOf(devices)[i + 1]
                    switch == SwitchesOf(devices)[(i % Len(SwitchesOf(devices))) + 1]
                IN  graphData.links[HubCount + ChainCount + i + 1] =
                        [source |-> server.id, target |-> switch.id,
                         type |-> "straight",
                         animated |-> (server.status = "online"
                                       /\ switch.status = "online")]
           /\ Len(SwitchesOf(devices)) = 0
                => Len(graphData.links) = HubCount

C4_Witness ==
    /\ pc = "done"
    /\ UniqueIds(devices)
    /\ Len(SwitchesOf(devices)) = 2
    /\ Len(ServersOf(devices)) = 3
    /\ Len(graphData.links) = 8
    /\ graphData.links[7].source = ServersOf(devices)[2].id
    /\ graphData.links[7].target = SwitchesOf(devices)[2].id
    /\ graphData.links[8].source = ServersOf(devices)[3].id
    /\ graphData.links[8].target = SwitchesOf(devices)[1].id

\* C5: the switches, in input order, are linked pairwise, each edge animated
\* exactly when both of its switches are online: max(0, #switches - 1) chain
\* edges, placed after the hub edges.
C5_SwitchChain ==
    (pc = "done")
        => /\ Len(graphData.links) = HubCount + ChainCount + ServerCount
           /\ \A i \in 1..ChainCount :
                LET a == SwitchesOf(devices)[i]
                    b == SwitchesOf(devices)[i + 1]
                IN  graphData.links[HubCount + i] =
                        [source |-> a.id, target |-> b.id, type |-> "straight",
                         animated |-> (a.status = "online" /\ b.status = "online")]

C5_Witness ==
    /\ pc = "done"
    /\ Len(SwitchesOf(devices)) = 3
    /\ SwitchesOf(devices)[1].status = "online"
    /\ SwitchesOf(devices)[2].status = "online"
    /\ SwitchesOf(devices)[3].status = "offline"
    /\ graphData.links[HubCount + 1].animated
    /\ ~graphData.links[HubCount + 2].animated

\* C6: in every state of the view the nodes are those of the current device
\* list and every link's source and target are ids of current nodes.
C6_LinksReferCurrentNodes ==
    /\ IdsOf(graphData.nodes) = IdsOf(devices)
    /\ \A i \in 1..Len(graphData.links) :
          /\ graphData.links[i].source \in IdsOf(graphData.nodes)
          /\ graphData.links[i].target \in IdsOf(graphData.nodes)

C6_Witness ==
    /\ pc = "mounted"
    /\ networkDevices = [given |-> TRUE, list |-> SnapshotA]
    /\ devices = SnapshotB
    /\ Len(graphData.links) = 2

\* C7: a fetch that fails in pull mode emits one notification, leaves the
\* device list (and its graph) as it is, clears the loading flag and leaves
\* the timer armed; a fetch that succeeds clears the loading flag too.
C7_FailedFetchKeepsList ==
    [][\A f \in FetchNumbers :
          /\ (pc = "mounted" /\ ~networkDevices.given
                /\ fetches[f] = "pending" /\ fetches'[f] = "rejected")
               => /\ toasts' = toasts + 1
                  /\ devices' = devices
                  /\ graphData' = graphData
                  /\ loading' = FALSE
                  /\ timer /\ timer'
                  /\ pc' = "mounted"
          /\ (pc = "mounted" /\ ~networkDevices.given
                /\ fetches[f] = "pending" /\ fetches'[f] = "resolved")
               => loading' = FALSE]_vars

C7_Witness ==
    /\ pc = "mounted"
    /\ ~networkDevices.given
    /\ devices = SnapshotA
    /\ toasts = 1
    /\ ~loading
    /\ timer
    /\ fetches[2] = "rejected"
    /\ fetches[3] = "pending"

\* C8: after teardown the timer is off, no fetch is started, and no
\* completion of a fetch changes the device list, clears the loading flag or
\* emits a notification.
C8_NothingAfterTeardown ==
    [][pc = "unmounted"
          => /\ ~timer /\ ~timer'
             /\ \A f \in FetchNumbers : fetches[f] = "idle" => fetches'[f] = "idle"
             /\ devices' = devices
             /\ loading' = loading
             /\ toasts' = toasts]_vars

\* C9: a tick starts a fetch whatever is in flight: whenever the timer is
\* armed and an earlier fetch is still pending, the tick can fire; and every
\* fetch that resolves while the view is mounted puts its data in the device
\* list, whatever was applied before.
C9_TickIgnoresInFlight ==
    /\ []((timer /\ CanFetch(fetches)
            /\ \E f \in FetchNumbers : fetches[f] = "pending")
          => ENABLED Tick)
    /\ [][\A f \in FetchNumbers :
            (pc = "mounted" /\ fetches[f] = "pending" /\ fetches'[f] = "resolved")
                => (holder' = f /\ devices' \in Snapshots
                    /\ graphData' = Synthesize(devices'))]_vars

\* the device list holds the result of fetch f although the later-started
\* fetch g had completed and been applied before
C9_Witness ==
    /\ pc = "mounted"
    /\ \E f, g \in FetchNumbers :
          /\ f < g
          /\ holder = f
          /\ fetches[f] = "resolved"
          /\ fetches[g] = "resolved"

\* C10: while the caller supplies a list the view's device list is that list
\* and no timer is armed.
C10_SuppliedListStays ==
    (pc = "mounted" /\ networkDevices.given)
        => /\ devices = networkDevices.list
           /\ ~timer

====
